---- MODULE Spec2Model ----
(***************************************************************************)
(* Chart generation pipeline of image-mcp-generation.                      *)
(*                                                                         *)
(* One MCPServer owns one Agent (one conversationHistory) and serves       *)
(* JSON-RPC requests over WebSockets.  Node runs the synchronous code      *)
(* between two awaits as one step, so every action below is one such       *)
(* segment: it starts where a message, a model answer or a timer arrives   *)
(* and runs to the next await (or to the end of the handler).              *)
(*                                                                         *)
(* A slot is one request being handled: its locals, its canvas, the model  *)
(* calls it made and the messages it put on its socket.                    *)
(***************************************************************************)
EXTENDS Integers, Sequences, FiniteSets, TLC

VARIABLES
  conversationHistory,  \* Agent.conversationHistory
  inv,                  \* slot -> the locals of the request handled there
  nextId                \* next fresh request / message id (uuidv4, JSON-RPC id)

vars == <<conversationHistory, inv, nextId>>

(***************************************************************************)
(* Bounds of the model.                                                    *)
(***************************************************************************)
Slots == {1, 2}          \* requests the server handles at the same time
MaxRequests == 2         \* requests received in one run, interleaved handlers
MaxSerialRequests == 12  \* requests received in one run, one handler at a time
MaxTokens == 1           \* chunks streamed by one chat model call
MaxChunks == 3           \* chunks of one model answer, followed one by one
MaxSockets == 3          \* WebSockets one useWebSocket hook creates in one run
MaxSends == 2            \* send() calls on one useWebSocket hook in one run
PriorExchanges == 9      \* chat exchanges before the run in a long conversation

(***************************************************************************)
(* Program constants.                                                      *)
(***************************************************************************)
maxMessages == 21        \* Agent.trimHistory
keepLast == 20           \* Agent.trimHistory: slice(-20)
maxReconnectAttempts == 5  \* useWebSocket option default

(***************************************************************************)
(* Inputs.  A user text is the set of keywords it contains (the code only  *)
(* ever looks at it through includes()), and bgLen is the length of the    *)
(* background description extractBackgroundImagePrompt cuts out of it.     *)
(***************************************************************************)
chartKeywords ==
  {"chart", "graph", "plot", "visualize", "visualization", "bar chart",
   "line chart", "pie chart", "histogram", "show me", "create a",
   "generate a", "draw a"}

backgroundKeywords ==
  {"background", "bg", "with background", "background image",
   "background color", "background pattern", "background gradient"}

UserTexts ==
  { [kw |-> {"hello"},                        bgLen |-> 0],
    [kw |-> {"pie chart", "chart", "pie"},    bgLen |-> 0],
    [kw |-> {"chart", "background"},          bgLen |-> 13] }

NoText == [kw |-> {}, bgLen |-> 0]

(* A model answer to the chart prompt: whether one of the four patterns    *)
(* matches, whether the matched text is JSON, the parsed object, and the   *)
(* type keywords the whole answer contains.                                *)
Responses ==
  { [match |-> TRUE,  json |-> TRUE,  labels |-> <<"A", "B">>, datasets |-> << <<10, 20>> >>,
     type |-> "bar", title |-> "Sales", kw |-> {"bar"}],
    [match |-> TRUE,  json |-> TRUE,  labels |-> <<>>, datasets |-> << <<10, 20>> >>,
     type |-> "", title |-> "", kw |-> {"pie"}],
    [match |-> FALSE, json |-> FALSE, labels |-> <<>>, datasets |-> <<>>,
     type |-> "", title |-> "", kw |-> {}] }

(* Answers of the background-description call, after trim().toLowerCase(). *)
Descriptions == {"", "blue gradient"}

Undefined == "<undefined>"
Truthy(s) == s # Undefined /\ s # ""

NoSpec == [src |-> "none", type |-> "", title |-> "", labels |-> <<>>, datasets |-> <<>>]

(***************************************************************************)
(* Conversation turns.  src names the text of the turn: 0 is the system    *)
(* prompt of getSystemPrompt(), n > 0 the texts of request n (its user     *)
(* message, the chart prompt built from it, the answer to it).             *)
(***************************************************************************)
Turn(role, src) == [role |-> role, src |-> src]
SystemTurn == Turn("system", 0)

(* Agent.trimHistory without the pinned system turn: a plain slice(-21).   *)
trimHistoryUnpinned(h) ==
  IF Len(h) > maxMessages
  THEN SubSeq(h, Len(h) - maxMessages + 1, Len(h))
  ELSE h

(* Agent.trimHistory *)
trimHistory(h) ==
  IF Len(h) > maxMessages
  THEN <<h[1]>> \o SubSeq(h, Len(h) - keepLast + 1, Len(h))
  ELSE h

(* Agent.clearHistory *)
clearHistory(h) == <<h[1]>>

(* Agent.isChartRequest *)
isChartRequest(text) == text.kw \cap chartKeywords # {}

(* Agent.extractWatermarkPrompt: the words left after stripping, else the  *)
(* first 15 characters of the message; empty only for the empty message.   *)
extractWatermarkPrompt(text) == IF text.kw = {} THEN "" ELSE "wm-prompt"

(* An extraction without the keyword test: the main theme of any message  *)
(* becomes the background prompt.                                          *)
extractBackgroundThemeAlways(text) ==
  IF text.kw # {} THEN "bg-prompt" ELSE Undefined

(* Agent.extractBackgroundImagePrompt *)
extractBackgroundImagePrompt(text) ==
  IF text.kw \cap backgroundKeywords # {} /\ text.bgLen > 2
  THEN "bg-prompt"
  ELSE Undefined

(* A splice that removes the n elements and inserts nothing.               *)
SpliceNoInsert(seq, n, items) == SubSeq(seq, n + 1, Len(seq))

(* labels.splice(0, n, items...) *)
Splice(seq, n, items) == items \o SubSeq(seq, n + 1, Len(seq))

(* Agent.generateFallbackChart *)
generateFallbackChart(text) ==
  LET has(k) == k \in text.kw
      chartType == IF has("pie") THEN "pie"
                   ELSE IF has("doughnut") THEN "doughnut"
                   ELSE IF has("line") \/ has("trend") THEN "line"
                   ELSE "bar"
      labels0 == <<"Category A", "Category B", "Category C", "Category D", "Category E">>
      data0 == <<25, 30, 20, 15, 10>>
      labels == IF has("month") THEN Splice(labels0, 5, <<"Jan", "Feb", "Mar", "Apr", "May">>)
                ELSE IF has("quarter") THEN Splice(labels0, 4, <<"Q1", "Q2", "Q3", "Q4">>)
                ELSE IF has("product")
                     THEN Splice(labels0, 5, <<"Product 1", "Product 2", "Product 3",
                                               "Product 4", "Product 5">>)
                ELSE labels0
      data == IF ~has("month") /\ has("quarter") THEN Splice(data0, 4, <<30, 35, 28, 32>>)
              ELSE data0
  IN [src |-> "fallback", type |-> chartType, title |-> "Generated Chart",
      labels |-> labels, datasets |-> <<data>>]

(* ChartGenerator.parseChartDataFromText; NoSpec stands for null.          *)
parseChartDataFromText(r) ==
  IF ~r.match \/ ~r.json THEN NoSpec
  ELSE LET chartType == IF r.type # "" THEN r.type
                        ELSE IF "pie" \in r.kw THEN "pie"
                        ELSE IF "line" \in r.kw THEN "line"
                        ELSE "bar"
       IN IF Len(r.labels) > 0 /\ Len(r.datasets) > 0 /\ Len(r.datasets[1]) > 0
          THEN [src |-> "parsed", type |-> chartType, title |-> r.title,
                labels |-> r.labels, datasets |-> r.datasets]
          ELSE NoSpec

(***************************************************************************)
(* The locals of one request.                                              *)
(*   pc       where the handler waits: "llm" (chat / chart-spec model      *)
(*            call), "bgcall" (background-description call), "settle"      *)
(*            (the 50 ms timer), "wmcall" (watermark-text call); "done"    *)
(*            when the handler has returned, "hung" when the promise of    *)
(*            generateFromData can no longer settle                        *)
(*   opts     the ChartOptions object handed to generateFromData           *)
(*   ops      what has been drawn on the canvas, in order                  *)
(*   calls    the model calls made, in order                               *)
(*   sent     the messages put on the socket, in order                     *)
(*   faults   which collaborators failed during this request               *)
(***************************************************************************)
NoOpts == [backgroundImagePrompt |-> Undefined, watermarkPrompt |-> Undefined,
           backgroundDescription |-> Undefined]

IdleInv ==
  [pc |-> "idle", method |-> "none", id |-> 0, text |-> NoText, open |-> TRUE,
   ntok |-> 0, spec |-> NoSpec, opts |-> NoOpts, ops |-> <<>>, calls |-> <<>>,
   sent |-> <<>>, wmSource |-> "none", outcome |-> "none", faults |-> {}]

InFlight(l) == l.pc \in {"llm", "bgcall", "settle", "wmcall"}

ModelCall(purpose, messages) == [purpose |-> purpose, messages |-> messages]

(* A streamChunk that tags the event with the id generated last, as if    *)
(* messageId were a field of the server.                                   *)
streamChunkLatestId(l, type, streaming) ==
  IF l.open
  THEN [l EXCEPT !.sent = Append(@, [rpc |-> "stream", type |-> type,
                                     streaming |-> streaming,
                                     id |-> IF l.pc = "idle" THEN l.id ELSE nextId - 1,
                                     code |-> 0])]
  ELSE l

(* streamChunk without the readyState test.                                *)
streamChunkUnguarded(l, type, streaming) ==
  [l EXCEPT !.sent = Append(@, [rpc |-> "stream", type |-> type,
                                streaming |-> streaming, id |-> l.id, code |-> 0])]

(* MCPServer.streamChunk *)
streamChunk(l, type, streaming) ==
  IF l.open
  THEN [l EXCEPT !.sent = Append(@, [rpc |-> "stream", type |-> type,
                                     streaming |-> streaming, id |-> l.id, code |-> 0])]
  ELSE l

(* MCPServer.sendResult *)
sendResult(l) ==
  IF l.open
  THEN [l EXCEPT !.sent = Append(@, [rpc |-> "result", type |-> "", streaming |-> FALSE,
                                     id |-> l.id, code |-> 0])]
  ELSE l

(* MCPServer.sendError *)
sendError(l, code) ==
  IF l.open
  THEN [l EXCEPT !.sent = Append(@, [rpc |-> "error", type |-> "", streaming |-> FALSE,
                                     id |-> l.id, code |-> code])]
  ELSE l

(***************************************************************************)
(* The segments of the handlers, as functions of c = [l |-> the locals,    *)
(* h |-> conversationHistory].                                             *)
(***************************************************************************)

(* A catch block that streams the error event and forgets the JSON-RPC    *)
(* error response.                                                         *)
failRequestNoRpcError(c) ==
  [c EXCEPT !.l = [streamChunk(c.l, "error", FALSE)
                     EXCEPT !.pc = "done", !.outcome = "rejected"]]

(* The catch blocks of MCPServer.handleChat and handleGenerateChart.       *)
failRequest(c) ==
  [c EXCEPT !.l = [sendError(streamChunk(c.l, "error", FALSE), -32000)
                     EXCEPT !.pc = "done", !.outcome = "rejected"]]

(* Agent.chat from "Add assistant response to history" to its return, and  *)
(* the sendResult of handleChat that follows it.                           *)
finishChat(c) ==
  [l |-> [sendResult(streamChunk(c.l, "text", FALSE))
            EXCEPT !.pc = "done", !.outcome = "resolved"],
   h |-> trimHistory(Append(c.h, Turn("assistant", c.l.id)))]

(* An Agent.chat that calls onImage only after onComplete and its return.  *)
deliverImageAfterComplete(c) ==
  IF c.l.method = "chat"
  THEN LET d == finishChat(c)
       IN [d EXCEPT !.l = streamChunk(streamChunk(d.l, "image", FALSE),
                                      "chartData", FALSE)]
  ELSE [c EXCEPT !.l = [sendResult(streamChunk(c.l, "image", FALSE))
                          EXCEPT !.pc = "done", !.outcome = "resolved"]]

(* generateFromData has resolved with the encoded image.                   *)
deliverImage(c) ==
  IF c.l.method = "chat"
  THEN finishChat([c EXCEPT !.l = streamChunk(streamChunk(c.l, "image", FALSE),
                                              "chartData", FALSE)])
  ELSE [c EXCEPT !.l = [sendResult(streamChunk(c.l, "image", FALSE))
                          EXCEPT !.pc = "done", !.outcome = "resolved"]]

(* generateFromData has rejected: Agent.chat logs the error and goes on,   *)
(* generateDataChart and generateAIChart let it through to the handler.    *)
compositorThrew(c) ==
  IF c.l.method = "chat" THEN finishChat(c) ELSE failRequest(c)

(* canvas.toBuffer.  tries are the attempts the branch has: the second one *)
(* is the .catch handler running because the .then handler threw.          *)
encode(c, tries) ==
  IF \E i \in 1..Len(tries) : ~tries[i]
  THEN deliverImage([c EXCEPT !.l.ops = Append(@, "encode")])
  ELSE [c EXCEPT !.l.pc = "hung", !.l.outcome = "hung",
                 !.l.faults = @ \cup {"encode"}]

(* The timer callback encoding at once instead of in .then / .catch: the   *)
(* watermark lands on the canvas after the image was taken.                *)
applyWatermarkAfterEncode(c, drawThrows, e1, e2) ==
  deliverImage([c EXCEPT !.l.ops = IF drawThrows THEN Append(@, "encode")
                                   ELSE Append(Append(@, "encode"), "watermark"),
                         !.l.faults = IF drawThrows THEN @ \cup {"wmdraw"} ELSE @])

(* The watermark promise without its .catch: a failed drawing rejects      *)
(* generateFromData.                                                       *)
applyWatermarkNoCatch(c, drawThrows, e1, e2) ==
  IF drawThrows
  THEN compositorThrew([c EXCEPT !.l.faults = @ \cup {"wmdraw"}])
  ELSE encode([c EXCEPT !.l.ops = Append(@, "watermark")], <<e1, e2>>)

(* WatermarkGenerator.applyWatermarkTextToCanvas and the .then / .catch    *)
(* of generateFromData that follow it.                                     *)
applyWatermarkTextToCanvas(c, drawThrows, e1, e2) ==
  IF drawThrows
  THEN encode([c EXCEPT !.l.faults = @ \cup {"wmdraw"}], <<e1>>)
  ELSE encode([c EXCEPT !.l.ops = Append(@, "watermark")], <<e1, e2>>)

(* generateFromData: applyDefaultColors and new Chart(...), then the timer *)
renderChart(c, renderThrows) ==
  IF renderThrows
  THEN compositorThrew([c EXCEPT !.l.faults = @ \cup {"render"}])
  ELSE [c EXCEPT !.l.ops = Append(@, "chart"), !.l.pc = "settle"]

(* generateFromData up to its first await that leaves the event loop:      *)
(* applyBackground fills the base colour and, given a prompt, starts the   *)
(* background-description call.                                            *)
generateFromData(c, options, renderThrows) ==
  LET c1 == [c EXCEPT !.l.opts = options, !.l.ops = <<"fill">>]
  IN IF Truthy(options.backgroundImagePrompt)
     THEN [c1 EXCEPT !.l.pc = "bgcall",
                     !.l.calls = Append(@, ModelCall("background", <<>>))]
     ELSE renderChart(c1, renderThrows)

(* applyBackground after generateBackgroundImage returned a result.        *)
applyBackground(c, description, renderThrows) ==
  renderChart([c EXCEPT !.l.ops = Append(@, "overlay"),
                        !.l.opts.backgroundDescription = description],
              renderThrows)

(* generateBackgroundImage without its try / catch: the failure of the    *)
(* model call rejects generateFromData.                                    *)
backgroundFailedFatal(c, renderThrows) ==
  compositorThrew([c EXCEPT !.l.faults = @ \cup {"bg"}])

(* applyBackground after generateBackgroundImage caught the failure of    *)
(* the model call and returned null: nothing is drawn, nothing is stored.  *)
backgroundFailed(c, renderThrows) ==
  renderChart([c EXCEPT !.l.faults = @ \cup {"bg"}], renderThrows)

(* A timer callback that ignores backgroundDescription and always asks    *)
(* the model for the watermark text.                                       *)
watermarkStageAlwaysAsks(c, drawThrows, e1, e2) ==
  IF Truthy(c.l.opts.backgroundDescription) \/ Truthy(c.l.opts.watermarkPrompt)
  THEN [c EXCEPT !.l.pc = "wmcall",
                 !.l.calls = Append(@, ModelCall("watermark", <<>>))]
  ELSE encode(c, <<e1>>)

(* The callback of setTimeout(..., 50) in generateFromData.                *)
watermarkStage(c, drawThrows, e1, e2) ==
  LET o == c.l.opts
      watermarkText == IF Truthy(o.backgroundDescription)
                       THEN o.backgroundDescription ELSE o.watermarkPrompt
  IN IF Truthy(watermarkText)
     THEN IF Truthy(o.backgroundDescription)
          THEN applyWatermarkTextToCanvas([c EXCEPT !.l.wmSource = "description"],
                                          drawThrows, e1, e2)
          ELSE [c EXCEPT !.l.pc = "wmcall",
                         !.l.calls = Append(@, ModelCall("watermark", <<>>))]
     ELSE encode(c, <<e1>>)

(* Agent.chat after the chart-spec answer: extraction, fallback, prompts.  *)
chartTurn(c, r, renderThrows) ==
  LET parsed == parseChartDataFromText(r)
      chartSpec == IF parsed = NoSpec THEN generateFallbackChart(c.l.text) ELSE parsed
      options == [backgroundImagePrompt |-> extractBackgroundImagePrompt(c.l.text),
                  watermarkPrompt |-> extractWatermarkPrompt(c.l.text),
                  backgroundDescription |-> Undefined]
  IN generateFromData([c EXCEPT !.l.spec = chartSpec,
                                !.l.faults = IF parsed = NoSpec
                                             THEN @ \cup {"extraction"} ELSE @],
                      options, renderThrows)

(* Agent.generateAIChart after the answer.                                 *)
generateAIChart(c, r, renderThrows) ==
  LET chartSpec == parseChartDataFromText(r)
  IN IF chartSpec = NoSpec
     THEN failRequest([c EXCEPT !.l.faults = @ \cup {"extraction"}])
     ELSE generateFromData([c EXCEPT !.l.spec = chartSpec], NoOpts, renderThrows)

(***************************************************************************)
(* Client inputs of generateChart with type 'data': the caller's options.  *)
(* backgroundDescription is a derived field (chartGenerator.ts line 29)    *)
(* and is left to the pipeline.                                            *)
(***************************************************************************)
DataOptions ==
  { [backgroundImagePrompt |-> b, watermarkPrompt |-> w, backgroundDescription |-> Undefined] :
      b \in {Undefined, "bg-prompt"}, w \in {Undefined, "wm-prompt"} }

Init ==
  /\ conversationHistory = <<SystemTurn>>
  /\ inv = [s \in Slots |-> IdleInv]
  /\ nextId = 1

Ctx(s) == [l |-> inv[s], h |-> conversationHistory]

Commit(s, c) ==
  /\ inv' = [inv EXCEPT ![s] = c.l]
  /\ conversationHistory' = c.h

NoneDone == \A s \in Slots : inv[s].pc # "done"

CanStart(s, limit) ==
  /\ NoneDone
  /\ inv[s].pc = "idle"
  /\ nextId <= limit

(* The handler in slot s waits at pc and its answer or timer is next.      *)
At(s, pc) == NoneDone /\ inv[s].pc = pc

Fresh(method, text) ==
  [IdleInv EXCEPT !.method = method, !.id = nextId, !.text = text]

(* An Agent.chat that gives the chart-specification call the conversation *)
(* history as well.                                                        *)
HandleChatHistoryToChartCall(s, limit, texts) ==
  /\ CanStart(s, limit)
  /\ \E text \in texts :
       LET l0 == streamChunk(Fresh("chat", text), "status", TRUE)
           h1 == Append(conversationHistory, Turn("user", nextId))
           call == IF isChartRequest(text)
                   THEN ModelCall("chartSpec", <<Turn("system", nextId)>> \o h1)
                   ELSE ModelCall("conversation", h1)
       IN Commit(s, [l |-> [l0 EXCEPT !.pc = "llm", !.calls = <<call>>], h |-> h1])
  /\ nextId' = nextId + 1

(* ws.on('message') -> handleMessage -> handleChat -> Agent.chat, up to    *)
(* the await of the model call.                                            *)
HandleChat(s, limit, texts) ==
  /\ CanStart(s, limit)
  /\ \E text \in texts :
       LET l0 == streamChunk(Fresh("chat", text), "status", TRUE)
           h1 == Append(conversationHistory, Turn("user", nextId))
           call == IF isChartRequest(text)
                   THEN ModelCall("chartSpec",
                                  <<Turn("system", nextId), Turn("user", nextId)>>)
                   ELSE ModelCall("conversation", h1)
       IN Commit(s, [l |-> [l0 EXCEPT !.pc = "llm", !.calls = <<call>>], h |-> h1])
  /\ nextId' = nextId + 1

(* handleGenerateChart with type 'ai': Agent.generateAIChart up to the     *)
(* await of OllamaClient.generate.                                         *)
HandleGenerateChartAI(s, limit) ==
  /\ CanStart(s, limit)
  /\ LET l0 == streamChunk(Fresh("ai", [kw |-> {"chart"}, bgLen |-> 0]), "status", TRUE)
     IN Commit(s, [l |-> [l0 EXCEPT !.pc = "llm",
                                    !.calls = <<ModelCall("chartSpec", <<>>)>>],
                   h |-> conversationHistory])
  /\ nextId' = nextId + 1

(* A generateDataChart that records the request as a user turn.           *)
HandleGenerateChartDataRecorded(s, limit) ==
  /\ CanStart(s, limit)
  /\ \E options \in DataOptions, renderThrows \in BOOLEAN :
       LET l0 == streamChunk(Fresh("data", NoText), "status", TRUE)
           given == [src |-> "given", type |-> "bar", title |-> "",
                     labels |-> <<"A">>, datasets |-> << <<1>> >>]
       IN Commit(s, generateFromData([l |-> [l0 EXCEPT !.spec = given],
                                      h |-> Append(conversationHistory,
                                                   Turn("user", nextId))],
                                     options, renderThrows))
  /\ nextId' = nextId + 1

(* handleGenerateChart with type 'data': Agent.generateDataChart.          *)
HandleGenerateChartData(s, limit) ==
  /\ CanStart(s, limit)
  /\ \E options \in DataOptions, renderThrows \in BOOLEAN :
       LET l0 == streamChunk(Fresh("data", NoText), "status", TRUE)
           given == [src |-> "given", type |-> "bar", title |-> "",
                     labels |-> <<"A">>, datasets |-> << <<1>> >>]
       IN Commit(s, generateFromData([l |-> [l0 EXCEPT !.spec = given],
                                      h |-> conversationHistory],
                                     options, renderThrows))
  /\ nextId' = nextId + 1

(* One chunk of the chat / chart-spec answer arrives: onToken.             *)
Token(s) ==
  /\ At(s, "llm")
  /\ inv[s].ntok < MaxTokens
  /\ Commit(s, [l |-> [streamChunk(inv[s], "text", TRUE) EXCEPT !.ntok = @ + 1],
                h |-> conversationHistory])
  /\ UNCHANGED nextId

(* The chat / chart-spec model call fails: OllamaClient rethrows, Agent    *)
(* does not catch, the handler's catch block reports.                      *)
LlmFail(s) ==
  /\ At(s, "llm")
  /\ Commit(s, failRequest([Ctx(s) EXCEPT !.l.faults = @ \cup {"llm"}]))
  /\ UNCHANGED nextId

(* The chat / chart-spec model call completes with answer r.               *)
LlmDone(s) ==
  /\ At(s, "llm")
  /\ \E r \in Responses, renderThrows \in BOOLEAN :
       Commit(s, IF inv[s].method = "ai" THEN generateAIChart(Ctx(s), r, renderThrows)
                 ELSE IF isChartRequest(inv[s].text) THEN chartTurn(Ctx(s), r, renderThrows)
                 ELSE finishChat(Ctx(s)))
  /\ UNCHANGED nextId

(* The background-description call answers: generateBackgroundImage draws  *)
(* the backdrop, applyBackground overlays it and stores the description.   *)
BgDone(s) ==
  /\ At(s, "bgcall")
  /\ \E description \in Descriptions, renderThrows \in BOOLEAN :
       Commit(s, applyBackground(Ctx(s), description, renderThrows))
  /\ UNCHANGED nextId

(* The background-description call fails: generateBackgroundImage catches  *)
(* and returns null, applyBackground draws nothing.                        *)
BgFail(s) ==
  /\ At(s, "bgcall")
  /\ \E renderThrows \in BOOLEAN :
       Commit(s, backgroundFailed(Ctx(s), renderThrows))
  /\ UNCHANGED nextId

(* The 50 ms timer of generateFromData fires.                              *)
Settle(s) ==
  /\ At(s, "settle")
  /\ \E drawThrows, e1, e2 \in BOOLEAN :
       Commit(s, watermarkStage(Ctx(s), drawThrows, e1, e2))
  /\ UNCHANGED nextId

(* The watermark-text call answers or fails: either way                    *)
(* generateWatermarkTextWithOllama returns a text, which is then drawn.    *)
WmDone(s) ==
  /\ At(s, "wmcall")
  /\ \E ok, drawThrows, e1, e2 \in BOOLEAN :
       LET c == [Ctx(s) EXCEPT !.l.wmSource = IF ok THEN "model" ELSE "extracted",
                               !.l.faults = IF ok THEN @ ELSE @ \cup {"wmcall"}]
       IN Commit(s, applyWatermarkTextToCanvas(c, drawThrows, e1, e2))
  /\ UNCHANGED nextId

(* ws 'close': the client of the request goes away while it is handled.    *)
Close(s) ==
  /\ NoneDone
  /\ InFlight(inv[s])
  /\ inv[s].open
  /\ inv' = [inv EXCEPT ![s].open = FALSE]
  /\ UNCHANGED <<conversationHistory, nextId>>

(* Agent.clearHistory, called by an embedder of Agent.                     *)
ClearHistory ==
  /\ NoneDone
  /\ conversationHistory' = clearHistory(conversationHistory)
  /\ UNCHANGED <<inv, nextId>>

(* The handler has returned: `await this.handleMessage(...)` in the        *)
(* ws.on('message') callback resumes and the callback ends.  It resumes    *)
(* as a microtask, that is before any other message, answer or timer.      *)
Retire(s) ==
  /\ inv[s].pc = "done"
  /\ inv' = [inv EXCEPT ![s] = IdleInv]
  /\ UNCHANGED <<conversationHistory, nextId>>

(* The server: requests of several clients handled interleaved.            *)
Next ==
  \E s \in Slots :
    \/ HandleChat(s, MaxRequests, UserTexts)
    \/ HandleGenerateChartAI(s, MaxRequests)
    \/ HandleGenerateChartData(s, MaxRequests)
    \/ Token(s)
    \/ LlmFail(s)
    \/ LlmDone(s)
    \/ BgDone(s)
    \/ BgFail(s)
    \/ Settle(s)
    \/ WmDone(s)
    \/ Retire(s)

Spec == Init /\ [][Next]_vars

(***************************************************************************)
(* The other requests of the protocol.                                     *)
(***************************************************************************)

(* sendError(ws, null, code, ...): `id ?? 0` puts 0 in the response.       *)
sendErrorNoId(l, code) ==
  IF l.open
  THEN [l EXCEPT !.sent = Append(@, [rpc |-> "error", type |-> "", streaming |-> FALSE,
                                     id |-> 0, code |-> code])]
  ELSE l

(* A message that is not JSON: JSON.parse throws in the ws.on('message')   *)
(* callback, whose catch block answers.  No request id is known.           *)
ReceiveUnparseable(s, limit) ==
  /\ CanStart(s, limit)
  /\ inv' = [inv EXCEPT ![s] = [sendErrorNoId([Fresh("unparseable", NoText)
                                                 EXCEPT !.id = 0], -32700)
                                  EXCEPT !.pc = "done", !.outcome = "rejected"]]
  /\ conversationHistory' = conversationHistory
  /\ nextId' = nextId + 1

(* A chat request without params.message: handleChat throws a TypeError in *)
(* the log line that precedes its try block, handleMessage rejects, and    *)
(* the catch block of the ws.on('message') callback answers.               *)
HandleChatWithoutMessage(s, limit) ==
  /\ CanStart(s, limit)
  /\ inv' = [inv EXCEPT ![s] = [sendErrorNoId(Fresh("chat", NoText), -32700)
                                  EXCEPT !.pc = "done", !.outcome = "rejected"]]
  /\ conversationHistory' = conversationHistory
  /\ nextId' = nextId + 1

(* listTools and ping: answered at once.                                   *)
HandleImmediate(s, limit) ==
  /\ CanStart(s, limit)
  /\ \E method \in {"listTools", "ping"} :
       inv' = [inv EXCEPT ![s] = [sendResult(Fresh(method, NoText))
                                    EXCEPT !.pc = "done", !.outcome = "resolved"]]
  /\ conversationHistory' = conversationHistory
  /\ nextId' = nextId + 1

(* An unknown method: the default branch of handleMessage. *)
HandleUnknownMethod(s, limit) ==
  /\ CanStart(s, limit)
  /\ inv' = [inv EXCEPT ![s] = [sendError(Fresh("unknown", NoText), -32601)
                                  EXCEPT !.pc = "done", !.outcome = "rejected"]]
  /\ conversationHistory' = conversationHistory
  /\ nextId' = nextId + 1

(* getStatus: handleGetStatus up to the await of checkOllamaConnection.    *)
HandleGetStatus(s, limit) ==
  /\ CanStart(s, limit)
  /\ inv' = [inv EXCEPT ![s] = [Fresh("getStatus", NoText) EXCEPT !.pc = "status"]]
  /\ conversationHistory' = conversationHistory
  /\ nextId' = nextId + 1

(* checkConnection answers true or false (it catches its own failures).    *)
StatusDone(s) ==
  /\ At(s, "status")
  /\ inv' = [inv EXCEPT ![s] = [sendResult(inv[s])
                                  EXCEPT !.pc = "done", !.outcome = "resolved"]]
  /\ UNCHANGED <<conversationHistory, nextId>>

(* One client sending every kind of message.                               *)
NextProtocol ==
  \/ HandleChat(1, MaxRequests, UserTexts)
  \/ HandleChatWithoutMessage(1, MaxRequests)
  \/ HandleGenerateChartAI(1, MaxRequests)
  \/ HandleGenerateChartData(1, MaxRequests)
  \/ HandleImmediate(1, MaxRequests)
  \/ HandleUnknownMethod(1, MaxRequests)
  \/ HandleGetStatus(1, MaxRequests)
  \/ ReceiveUnparseable(1, MaxRequests)
  \/ StatusDone(1)
  \/ Token(1)
  \/ LlmFail(1)
  \/ LlmDone(1)
  \/ BgDone(1)
  \/ BgFail(1)
  \/ Settle(1)
  \/ WmDone(1)
  \/ Close(1)
  \/ Retire(1)

SpecProtocol == Init /\ [][NextProtocol]_vars

(* The server with clients that may go away while their request is        *)
(* handled.                                                                *)
NextDisconnect == Next \/ \E s \in Slots : Close(s)

SpecDisconnect == Init /\ [][NextDisconnect]_vars

(* A long conversation of plain chat turns, one caller at a time, with     *)
(* clearHistory at the caller's disposal.                                  *)
PlainTexts == {text \in UserTexts : ~isChartRequest(text)}

NextSerial ==
  \/ HandleChat(1, MaxSerialRequests, PlainTexts)
  \/ Token(1)
  \/ LlmFail(1)
  \/ LlmDone(1)
  \/ Retire(1)
  \/ ClearHistory

SpecSerial == Init /\ [][NextSerial]_vars

(* One client chatting, which may go away while its request is handled.    *)
NextOneClient ==
  \/ HandleChat(1, MaxRequests, UserTexts)
  \/ Token(1)
  \/ LlmFail(1)
  \/ LlmDone(1)
  \/ BgDone(1)
  \/ BgFail(1)
  \/ Settle(1)
  \/ WmDone(1)
  \/ Close(1)
  \/ Retire(1)

SpecOneClient == Init /\ [][NextOneClient]_vars

(***************************************************************************)
(* One client late in a conversation: the history holds the turns of the   *)
(* exchanges that came before, as Agent.chat left them.                    *)
(***************************************************************************)
RECURSIVE PriorHistory(_)
PriorHistory(n) ==
  IF n = 0 THEN <<SystemTurn>>
  ELSE trimHistory(Append(Append(PriorHistory(n - 1), Turn("user", n)),
                          Turn("assistant", n)))

InitLongConversation ==
  /\ conversationHistory = PriorHistory(PriorExchanges)
  /\ inv = [s \in Slots |-> IdleInv]
  /\ nextId = PriorExchanges + 1

NextLongConversation ==
  \/ HandleChat(1, PriorExchanges + MaxRequests, UserTexts)
  \/ Token(1)
  \/ LlmFail(1)
  \/ LlmDone(1)
  \/ BgDone(1)
  \/ BgFail(1)
  \/ Settle(1)
  \/ WmDone(1)
  \/ Retire(1)

SpecLongConversation == InitLongConversation /\ [][NextLongConversation]_vars

(***************************************************************************)
(* One call of OllamaClient.chat or OllamaClient.generate on its own, with *)
(* the text of the answer followed chunk by chunk.  A string is the        *)
(* sequence of its characters.  The locals of the call:                    *)
(*   callbacks     which of onToken / onComplete the caller passed         *)
(*   arrived       the chunks the model client has yielded so far          *)
(*   fullResponse  the local of that name                                  *)
(*   log           the callback invocations, in order                      *)
(*   returned      the value the call resolved with                        *)
(***************************************************************************)
Tokens == {<<>>, <<"a">>, <<"b">>}

(* A fullResponse that puts every new token in front.                      *)
accumulateInFront(fullResponse, token) == token \o fullResponse

(* fullResponse += token *)
accumulate(fullResponse, token) == fullResponse \o token

ModelCallStart(method, callbacks) ==
  [pc |-> "streaming", method |-> method, callbacks |-> callbacks, arrived |-> <<>>,
   fullResponse |-> <<>>, log |-> <<>>, returned |-> Undefined]

InitModelCall ==
  /\ conversationHistory = <<SystemTurn>>
  /\ \E method \in {"chat", "generate"}, callbacks \in SUBSET {"onToken", "onComplete"} :
       inv = [s \in Slots |-> IF s = 1 THEN ModelCallStart(method, callbacks) ELSE IdleInv]
  /\ nextId = 1

(* One turn of `for await (const chunk of response)`.                      *)
ChunkArrives(s) ==
  /\ inv[s].pc = "streaming"
  /\ Len(inv[s].arrived) < MaxChunks
  /\ \E token \in Tokens :
       inv' = [inv EXCEPT ![s].arrived = Append(@, token),
                          ![s].fullResponse = accumulate(@, token),
                          ![s].log = IF "onToken" \in inv[s].callbacks
                                     THEN Append(@, [cb |-> "onToken", arg |-> token])
                                     ELSE @]
  /\ UNCHANGED <<conversationHistory, nextId>>

(* The stream ends: onComplete and return.                                 *)
StreamEnds(s) ==
  /\ inv[s].pc = "streaming"
  /\ inv' = [inv EXCEPT ![s].pc = "returned",
                        ![s].log = IF "onComplete" \in inv[s].callbacks
                                   THEN Append(@, [cb |-> "onComplete",
                                                   arg |-> inv[s].fullResponse])
                                   ELSE @,
                        ![s].returned = inv[s].fullResponse]
  /\ UNCHANGED <<conversationHistory, nextId>>

(* The model client throws: the catch block rethrows `Ollama error: ...`.  *)
StreamFails(s) ==
  /\ inv[s].pc = "streaming"
  /\ inv' = [inv EXCEPT ![s].pc = "threw"]
  /\ UNCHANGED <<conversationHistory, nextId>>

NextModelCall == ChunkArrives(1) \/ StreamEnds(1) \/ StreamFails(1)

SpecModelCall == InitModelCall /\ [][NextModelCall]_vars

(***************************************************************************)
(* The extractor on its own.  A model answer is described by what the      *)
(* extractor looks at:                                                     *)
(*   fence     the fenced block it holds: none, ```json ... ```, ``` ... ```*)
(*   brace     the brace-delimited object it holds: none, one shorter than *)
(*             20 characters, a longer one, one with "labels" and          *)
(*             "datasets" inside                                           *)
(*   fenceJson, braceJson   whether the text of the fenced block, of the   *)
(*             brace span, is valid JSON                                   *)
(*   labels, datasets, type, title   what the object holds that the first  *)
(*             text that is valid JSON parses to                           *)
(*   kw        the type words the whole answer contains                    *)
(***************************************************************************)
Answers ==
  [fence : {"none", "json", "plain"},
   brace : {"none", "short", "long", "chart"},
   fenceJson : BOOLEAN,
   braceJson : BOOLEAN,
   labels : {<<>>, <<"A", "B">>},
   datasets : {<<>>, << <<>> >>, << <<10, 20>> >>, << <<>>, <<1>> >>},
   type : {"", "line", "doughnut", "scatter"},
   title : {"", "Sales"},
   kw : SUBSET {"pie", "line", "bar"}]

(* A pattern list with the two fenced patterns only.                       *)
jsonMatchFencedOnly(text) == text.fence # "none"

(* A pattern list that takes the whole answer when nothing else matches.   *)
jsonMatchWholeText(text) == TRUE

(* The four text.match(...) attempts of parseChartDataFromText.            *)
jsonMatch(text) == text.fence # "none" \/ text.brace \in {"long", "chart"}

Scanned(text) ==
  [match |-> jsonMatch(text),
   json |-> IF text.fence # "none" THEN text.fenceJson ELSE text.braceJson,
   labels |-> text.labels,
   datasets |-> text.datasets, type |-> text.type, title |-> text.title,
   kw |-> text.kw]

InitExtractor ==
  /\ conversationHistory = <<SystemTurn>>
  /\ \E text \in Answers :
       inv = [s \in Slots |-> IF s = 1 THEN [IdleInv EXCEPT !.text = text] ELSE IdleInv]
  /\ nextId = 1

(* parseChartDataFromText(text) is called and returns.                     *)
CallExtractor(s) ==
  /\ inv[s].pc = "idle"
  /\ inv[s].text # NoText
  /\ inv' = [inv EXCEPT ![s].spec = parseChartDataFromText(Scanned(inv[s].text)),
                        ![s].pc = "done", ![s].outcome = "resolved"]
  /\ UNCHANGED <<conversationHistory, nextId>>

NextExtractor == \E s \in Slots : CallExtractor(s)

SpecExtractor == InitExtractor /\ [][NextExtractor]_vars

(* JSON.stringify({type, title, labels, datasets}) of an extracted         *)
(* specification, as the extractor will see it: no fence, one brace span   *)
(* with "labels" and "datasets" inside, valid JSON, and of the type words  *)
(* the one that is the type itself.                                        *)
Serialized(spec) ==
  [fence |-> "none", brace |-> "chart", fenceJson |-> FALSE, braceJson |-> TRUE,
   labels |-> spec.labels,
   datasets |-> spec.datasets, type |-> spec.type, title |-> spec.title,
   kw |-> {spec.type} \cap {"pie", "line", "bar"}]

(* The specification extracted in slot 1 is serialized and handed to a     *)
(* second call of the extractor, in slot 2.                                *)
Reserialize ==
  /\ inv[1].pc = "done"
  /\ inv[1].spec # NoSpec
  /\ inv[2].pc = "idle"
  /\ inv[2].text = NoText
  /\ inv' = [inv EXCEPT ![2].text = Serialized(inv[1].spec)]
  /\ UNCHANGED <<conversationHistory, nextId>>

NextRoundTrip ==
  \/ \E s \in Slots : CallExtractor(s)
  \/ Reserialize

SpecRoundTrip == InitExtractor /\ [][NextRoundTrip]_vars

(***************************************************************************)
(* The background synthesizer on its own.  A description is the set of the *)
(* words it contains among those the three procedures look for.  A         *)
(* treatment is the procedure run, the keyword of its colour table that    *)
(* decided, and the colours put on the canvas.                             *)
(***************************************************************************)
backgroundWords ==
  {"gradient", "grid", "pattern", "blue", "green", "purple", "gray", "grey", "light"}

BackgroundDescriptions == SUBSET backgroundWords

NoTreatment == [procedure |-> "none", key |-> "none", colours |-> <<>>]

(* ChartGenerator.createGradientBackground *)
createGradientBackground(description) ==
  IF "blue" \in description
  THEN [procedure |-> "gradient", key |-> "blue",
        colours |-> <<"rgba(240, 248, 255, 0.8)", "rgba(230, 240, 255, 0.8)">>]
  ELSE IF "green" \in description
  THEN [procedure |-> "gradient", key |-> "green",
        colours |-> <<"rgba(240, 255, 240, 0.8)", "rgba(230, 255, 230, 0.8)">>]
  ELSE IF "purple" \in description
  THEN [procedure |-> "gradient", key |-> "purple",
        colours |-> <<"rgba(250, 245, 255, 0.8)", "rgba(240, 235, 255, 0.8)">>]
  ELSE [procedure |-> "gradient", key |-> "default",
        colours |-> <<"rgba(255, 255, 255, 0.95)", "rgba(248, 250, 252, 0.95)">>]

(* ChartGenerator.createPatternBackground *)
createPatternBackground(description) ==
  [procedure |-> "pattern", key |-> "none",
   colours |-> <<"#ffffff", "rgba(0, 0, 0, 0.05)">>]

(* ChartGenerator.createColorBackground *)
createColorBackground(description) ==
  IF "blue" \in description
  THEN [procedure |-> "solid", key |-> "blue", colours |-> <<"rgba(240, 248, 255, 0.9)">>]
  ELSE IF "green" \in description
  THEN [procedure |-> "solid", key |-> "green", colours |-> <<"rgba(240, 255, 240, 0.9)">>]
  ELSE IF "gray" \in description \/ "grey" \in description
  THEN [procedure |-> "solid", key |-> "gray", colours |-> <<"rgba(248, 250, 252, 0.9)">>]
  ELSE IF "light" \in description
  THEN [procedure |-> "solid", key |-> "light", colours |-> <<"rgba(255, 255, 255, 0.95)">>]
  ELSE [procedure |-> "solid", key |-> "default", colours |-> <<"#ffffff">>]

(* A routing that tests for the grid words before 'gradient'.              *)
generateBackgroundImageGridFirst(description) ==
  IF "grid" \in description \/ "pattern" \in description
  THEN createPatternBackground(description)
  ELSE IF "gradient" \in description
  THEN createGradientBackground(description)
  ELSE createColorBackground(description)

(* ChartGenerator.generateBackgroundImage, from the description on.        *)
generateBackgroundImage(description) ==
  IF "gradient" \in description
  THEN createGradientBackground(description)
  ELSE IF "grid" \in description \/ "pattern" \in description
  THEN createPatternBackground(description)
  ELSE createColorBackground(description)

BackgroundStart(description) ==
  [pc |-> "idle", description |-> description, treatment |-> NoTreatment]

InitBackground ==
  /\ conversationHistory = <<SystemTurn>>
  /\ \E description \in BackgroundDescriptions :
       inv = [s \in Slots |-> BackgroundStart(description)]
  /\ nextId = 1

(* The description arrived: the routing of generateBackgroundImage runs.   *)
RouteBackground(s) ==
  /\ inv[s].pc = "idle"
  /\ s = 1
  /\ inv' = [inv EXCEPT ![s].treatment = generateBackgroundImage(inv[s].description),
                        ![s].pc = "done"]
  /\ UNCHANGED <<conversationHistory, nextId>>

NextBackground == \E s \in Slots : RouteBackground(s)

SpecBackground == InitBackground /\ [][NextBackground]_vars

(* The two colouring procedures side by side: the gradient procedure in   *)
(* slot 1 and the solid-tint procedure in slot 2, on the same description. *)
DrawGradient ==
  /\ inv[1].pc = "idle"
  /\ inv' = [inv EXCEPT ![1].treatment = createGradientBackground(inv[1].description),
                        ![1].pc = "done"]
  /\ UNCHANGED <<conversationHistory, nextId>>

DrawColor ==
  /\ inv[2].pc = "idle"
  /\ inv' = [inv EXCEPT ![2].treatment = createColorBackground(inv[2].description),
                        ![2].pc = "done"]
  /\ UNCHANGED <<conversationHistory, nextId>>

NextColourTables == DrawGradient \/ DrawColor

SpecColourTables == InitBackground /\ [][NextColourTables]_vars

(***************************************************************************)
(* The useWebSocket hook of the SPA, one instance, held in slot 1.         *)
(*   status               the React state of that name                     *)
(*   sockets              readyState of every WebSocket created, by number *)
(*   wsRef                number of the socket in wsRef.current, 0 = null  *)
(*   reconnectAttempts    reconnectAttemptsRef.current                     *)
(*   timers               reconnect timers armed, named by the socket      *)
(*                        whose close armed them                           *)
(*   reconnectTimeoutRef  the timer in reconnectTimeoutRef.current         *)
(*   mounted              whether the auto-connect effect is in place      *)
(*   requestId            requestIdRef.current                             *)
(*   pending              keys of pendingRequestsRef.current               *)
(*   timeouts             request ids whose 30 s timer is armed            *)
(*   awaiting             <<id, socket>>: requests the server has not      *)
(*                        answered yet                                     *)
(*   promises             the promises send() returned, in order: the      *)
(*                        request id (0: none was taken), the state, how   *)
(*                        often resolve / reject was called, by what       *)
(***************************************************************************)
HookStart ==
  [pc |-> "hook", status |-> "disconnected", sockets |-> <<>>, wsRef |-> 0,
   reconnectAttempts |-> 0, timers |-> {}, reconnectTimeoutRef |-> 0, mounted |-> TRUE,
   requestId |-> 0, pending |-> {}, timeouts |-> {}, awaiting |-> {}, promises |-> <<>>]

Live(h) == {i \in 1..Len(h.sockets) : h.sockets[i] \in {"connecting", "open"}}

(* useWebSocket.connect *)
connect(h) ==
  IF h.wsRef # 0 /\ h.sockets[h.wsRef] = "open"
  THEN h
  ELSE [h EXCEPT !.status = "connecting",
                 !.sockets = Append(@, "connecting"),
                 !.wsRef = Len(h.sockets) + 1]

(* resolve / reject of promise k: only the first call settles a promise.  *)
settle(h, k, state, by) ==
  [h EXCEPT !.promises[k] = [@ EXCEPT !.state = IF @ = "pending" THEN state ELSE @,
                                      !.by = IF h.promises[k].state = "pending"
                                             THEN by ELSE @,
                                      !.settles = @ + 1]]

PromiseOf(h, id) == CHOOSE k \in 1..Len(h.promises) : h.promises[k].id = id

(* ws.onmessage without pendingRequestsRef.current.delete(message.id).     *)
onResponseKeepEntry(h, id, isError) ==
  IF id \in h.pending
  THEN settle(h, PromiseOf(h, id), IF isError THEN "rejected" ELSE "resolved", "response")
  ELSE h

(* ws.onmessage for a response with an id.                                 *)
onResponse(h, id, isError) ==
  IF id \in h.pending
  THEN [settle(h, PromiseOf(h, id), IF isError THEN "rejected" ELSE "resolved",
               "response")
          EXCEPT !.pending = @ \ {id}]
  ELSE h

(* useWebSocket.send *)
send(h) ==
  IF h.wsRef = 0 \/ h.sockets[h.wsRef] # "open"
  THEN [h EXCEPT !.promises = Append(@, [id |-> 0, state |-> "rejected",
                                         by |-> "closed", settles |-> 1])]
  ELSE LET id == h.requestId + 1
       IN [h EXCEPT !.requestId = id,
                    !.pending = @ \cup {id},
                    !.timeouts = @ \cup {id},
                    !.awaiting = @ \cup {<<id, h.wsRef>>},
                    !.promises = Append(@, [id |-> id, state |-> "pending",
                                            by |-> "none", settles |-> 0])]

(* The hook after its first render: the auto-connect effect has run.       *)
InitHook ==
  /\ conversationHistory = <<SystemTurn>>
  /\ inv = [s \in Slots |-> IF s = 1 THEN connect(HookStart) ELSE IdleInv]
  /\ nextId = 1

SetHook(h) ==
  /\ inv' = [inv EXCEPT ![1] = h]
  /\ UNCHANGED <<conversationHistory, nextId>>

CanConnect == Len(inv[1].sockets) < MaxSockets

(* The Reconnect button, rendered while status is not 'connected'.         *)
ReconnectClick ==
  /\ inv[1].mounted
  /\ inv[1].status # "connected"
  /\ CanConnect
  /\ SetHook(connect(inv[1]))

(* ws.onopen of socket i *)
SocketOpens(i) ==
  /\ inv[1].sockets[i] = "connecting"
  /\ SetHook([inv[1] EXCEPT !.sockets[i] = "open", !.status = "connected",
                            !.reconnectAttempts = 0])

(* ws.onclose of socket i: the server or the network ended it, or close()  *)
(* has completed.                                                          *)
SocketCloses(i) ==
  /\ inv[1].sockets[i] \in {"connecting", "open", "closing"}
  /\ LET h == [inv[1] EXCEPT !.sockets[i] = "closed", !.status = "disconnected",
                             !.awaiting = {a \in @ : a[2] # i}]
     IN SetHook(IF h.reconnectAttempts < maxReconnectAttempts
                THEN [h EXCEPT !.timers = @ \cup {i}, !.reconnectTimeoutRef = i]
                ELSE h)

(* The reconnect timer armed by the close of socket i fires.               *)
ReconnectTimerFires(i) ==
  /\ i \in inv[1].timers
  /\ CanConnect
  /\ SetHook(connect([inv[1] EXCEPT !.timers = @ \ {i},
                                    !.reconnectAttempts = @ + 1]))

(* useWebSocket.disconnect, run as the cleanup of the auto-connect effect. *)
Disconnect ==
  /\ inv[1].mounted
  /\ LET h == inv[1]
     IN SetHook([h EXCEPT !.mounted = FALSE,
                          !.timers = @ \ {h.reconnectTimeoutRef},
                          !.reconnectTimeoutRef = 0,
                          !.reconnectAttempts = maxReconnectAttempts,
                          !.sockets = IF h.wsRef # 0 /\ h.sockets[h.wsRef] \in {"connecting", "open"}
                                      THEN [@ EXCEPT ![h.wsRef] = "closing"]
                                      ELSE @])

(* The auto-connect effect runs again after its cleanup.                   *)
Remount ==
  /\ ~inv[1].mounted
  /\ CanConnect
  /\ SetHook(connect([inv[1] EXCEPT !.mounted = TRUE]))

(* A caller invokes send(method, params).                                  *)
Send ==
  /\ Len(inv[1].promises) < MaxSends
  /\ SetHook(send(inv[1]))

(* The server's response to request id arrives on the socket it was sent   *)
(* on: a result or an error.                                               *)
ResponseArrives(id) ==
  /\ \E i \in 1..Len(inv[1].sockets) :
       /\ <<id, i>> \in inv[1].awaiting
       /\ inv[1].sockets[i] = "open"
       /\ \E isError \in BOOLEAN :
            SetHook(onResponse([inv[1] EXCEPT !.awaiting = @ \ {<<id, i>>}], id, isError))

(* The 30 s timer of request id fires.                                     *)
RequestTimeout(id) ==
  /\ id \in inv[1].timeouts
  /\ LET h == [inv[1] EXCEPT !.timeouts = @ \ {id}]
     IN SetHook(IF id \in h.pending
                THEN [settle(h, PromiseOf(h, id), "rejected", "timeout")
                        EXCEPT !.pending = @ \ {id}]
                ELSE h)

NextHook ==
  \/ ReconnectClick
  \/ \E i \in 1..MaxSockets : i <= Len(inv[1].sockets) /\ SocketOpens(i)
  \/ \E i \in 1..MaxSockets : i <= Len(inv[1].sockets) /\ SocketCloses(i)
  \/ \E i \in 1..MaxSockets : ReconnectTimerFires(i)
  \/ Disconnect
  \/ Remount
  \/ Send
  \/ \E id \in 1..MaxSends : ResponseArrives(id)
  \/ \E id \in 1..MaxSends : RequestTimeout(id)

SpecHook == InitHook /\ [][NextHook]_vars

(***************************************************************************)
(* The fallback generator on its own: every combination of the words it    *)
(* looks for in the user message, the message without any of them (the     *)
(* empty string among them) included.                                      *)
(***************************************************************************)
fallbackWords == {"pie", "doughnut", "line", "trend", "month", "quarter", "product"}

FallbackTexts == { [kw |-> k, bgLen |-> 0] : k \in SUBSET fallbackWords }

InitFallback ==
  /\ conversationHistory = <<SystemTurn>>
  /\ \E text \in FallbackTexts :
       inv = [s \in Slots |-> IF s = 1 THEN [IdleInv EXCEPT !.text = text] ELSE IdleInv]
  /\ nextId = 1

(* generateFallbackChart(userMessage) is called and returns.               *)
CallFallback(s) ==
  /\ inv[s].pc = "idle"
  /\ inv[s].spec = NoSpec
  /\ s = 1
  /\ inv' = [inv EXCEPT ![s].spec = generateFallbackChart(inv[s].text),
                        ![s].pc = "done", ![s].outcome = "resolved"]
  /\ UNCHANGED <<conversationHistory, nextId>>

NextFallback == \E s \in Slots : CallFallback(s)

SpecFallback == InitFallback /\ [][NextFallback]_vars

(***************************************************************************)
(* Vocabulary of the properties.                                           *)
(***************************************************************************)
Range(seq) == {seq[i] : i \in 1..Len(seq)}

Streamed(l, type) == \E m \in Range(l.sent) : m.rpc = "stream" /\ m.type = type
ErrorSurfaced(l) ==
  /\ Streamed(l, "error")
  /\ \E m \in Range(l.sent) : m.rpc = "error" /\ m.id = l.id /\ m.code = -32000
ResultSent(l) == \E m \in Range(l.sent) : m.rpc = "result" /\ m.id = l.id
Purposes(l) == [i \in 1..Len(l.calls) |-> l.calls[i].purpose]
Finished(l) == l.pc = "done"
NoInvocationInFlight == \A s \in Slots : inv[s].pc \in {"idle", "done"}

(* C1: whenever extraction of the chart specification from the model       *)
(* answer fails, the fallback generator supplies the specification and no  *)
(* error reaches the caller, in Agent.chat and in Agent.generateAIChart.   *)
C1_ExtractionFailureRecovered ==
  \A s \in Slots :
    "extraction" \in inv[s].faults =>
      /\ inv[s].spec.src = "fallback"
      /\ inv[s].outcome # "rejected"
      /\ ~Streamed(inv[s], "error")

(* C2: generateFromData draws base fill, overlay (only if a background was *)
(* produced), chart, watermark (only if a watermark text exists), in that  *)
(* order, and encodes only after the chart render and after the watermark  *)
(* step has finished or failed.                                            *)
Rank(op) ==
  CASE op = "fill" -> 1 [] op = "overlay" -> 2 [] op = "chart" -> 3
    [] op = "watermark" -> 4 [] op = "encode" -> 5

WatermarkTextExists(l) ==
  Truthy(l.opts.backgroundDescription) \/ Truthy(l.opts.watermarkPrompt)

DrawnInOrder(l) ==
  /\ \A i, j \in 1..Len(l.ops) : i < j => Rank(l.ops[i]) < Rank(l.ops[j])
  /\ l.ops # <<>> => l.ops[1] = "fill"
  /\ "overlay" \in Range(l.ops) => l.opts.backgroundDescription # Undefined
  /\ "watermark" \in Range(l.ops) => WatermarkTextExists(l) /\ "chart" \in Range(l.ops)
  /\ "encode" \in Range(l.ops) =>
       /\ "chart" \in Range(l.ops)
       /\ WatermarkTextExists(l) =>
            "watermark" \in Range(l.ops) \/ "wmdraw" \in l.faults

C2_LayerOrder == \A s \in Slots : DrawnInOrder(inv[s])

C2_Witness ==
  \E s \in Slots : inv[s].ops = <<"fill", "overlay", "chart", "watermark", "encode">>

(* C3: when background synthesis produced a description, the watermark     *)
(* stage uses it and makes no model call for the watermark text; the       *)
(* watermarkPrompt call happens only without a description; so a chart     *)
(* turn with a successful background makes exactly two model calls.        *)
C3_DescriptionReused ==
  \A s \in Slots :
    LET l == inv[s] IN
      /\ "watermark" \in Range(Purposes(l)) => ~Truthy(l.opts.backgroundDescription)
      /\ Truthy(l.opts.backgroundDescription) /\ l.wmSource # "none" =>
           l.wmSource = "description"
      /\ l.method = "chat" /\ Truthy(l.opts.backgroundDescription) /\ Finished(l) =>
           Purposes(l) = <<"chartSpec", "background">>

C3_Witness ==
  \E s \in Slots :
    /\ inv[s].method = "chat" /\ Finished(inv[s])
    /\ inv[s].wmSource = "description"
    /\ "watermark" \in Range(inv[s].ops)

(* C4: when the chat model call of a turn fails, Agent.chat ends with an   *)
(* error for the turn (an error stream event and a JSON-RPC error), and    *)
(* the history still holds the user turn of that request.                  *)
C4_ModelFailureSurfaced ==
  \A s \in Slots :
    inv[s].method = "chat" /\ "llm" \in inv[s].faults =>
      /\ inv[s].outcome = "rejected"
      /\ ErrorSurfaced(inv[s])
      /\ ~ResultSent(inv[s])
      /\ Turn("user", inv[s].id) \in Range(conversationHistory)

C4_Witness ==
  \E s \in Slots : inv[s].method = "chat" /\ "llm" \in inv[s].faults /\ Finished(inv[s])

(* C5: if the compositor throws during a chart turn, the failure reaches   *)
(* the caller as an error for that request and no image is delivered.      *)
C5_RenderFailureSurfaced ==
  \A s \in Slots :
    inv[s].method = "chat" /\ "render" \in inv[s].faults /\ Finished(inv[s]) =>
      /\ ErrorSurfaced(inv[s])
      /\ ~Streamed(inv[s], "image")

(* C6: once no invocation is in flight the history holds at most 21        *)
(* entries, whatever chat invocations (failed ones too) and clearHistory   *)
(* calls came before.                                                      *)
C6_HistoryCapped ==
  NoInvocationInFlight => Len(conversationHistory) <= maxMessages

(* C7: the history is never empty and its first element is the system     *)
(* turn the constructor pushed.                                            *)
C7_SystemTurnPinned ==
  /\ Len(conversationHistory) >= 1
  /\ conversationHistory[1] = SystemTurn

C7_Witness ==
  /\ Len(conversationHistory) = maxMessages
  /\ conversationHistory[2].src > 1

(* C8: interleaved chat invocations never see each other's partial append: *)
(* no model call is given a history holding the user turn of another       *)
(* invocation that has not appended its assistant turn yet, and every      *)
(* assistant turn in the history directly follows its own user turn.       *)
C8_NoPartialAppendVisible ==
  /\ \A s, t \in Slots :
       s # t /\ inv[t].method = "chat" /\ InFlight(inv[t]) =>
         \A call \in Range(inv[s].calls) :
           Turn("user", inv[t].id) \notin Range(call.messages)
  /\ \A i \in 1..Len(conversationHistory) :
       conversationHistory[i].role = "assistant" =>
         /\ i > 1
         /\ conversationHistory[i - 1] = Turn("user", conversationHistory[i].src)

(* C9: a failed background-description call is not fatal: no description   *)
(* is stored, no overlay is drawn, the watermark does not come from a      *)
(* description, and the run still ends with the encoded image.             *)
C9_BackgroundFailureNonFatal ==
  \A s \in Slots :
    LET l == inv[s] IN
      "bg" \in l.faults =>
        /\ l.opts.backgroundDescription = Undefined
        /\ "overlay" \notin Range(l.ops)
        /\ l.wmSource # "description"
        /\ ~Streamed(l, "error") \/ "render" \in l.faults
        /\ Finished(l) /\ "render" \notin l.faults =>
             /\ l.outcome = "resolved"
             /\ l.ops \in {<<"fill", "chart", "encode">>,
                           <<"fill", "chart", "watermark", "encode">>}
             /\ Streamed(l, "image")

C9_Witness ==
  \E s \in Slots :
    /\ "bg" \in inv[s].faults /\ Finished(inv[s])
    /\ inv[s].ops = <<"fill", "chart", "watermark", "encode">>

(* C10: a failed watermark model call or a failed watermark drawing never  *)
(* aborts the run: the image is still encoded and delivered, and no error  *)
(* reaches the caller.                                                     *)
C10_WatermarkFailureNonFatal ==
  \A s \in Slots :
    LET l == inv[s] IN
      l.faults \cap {"wmcall", "wmdraw"} # {} /\ "encode" \notin l.faults =>
        /\ l.outcome = "resolved"
        /\ "encode" \in Range(l.ops)
        /\ Streamed(l, "image")
        /\ ~Streamed(l, "error")
        /\ ResultSent(l)

C10_Witness ==
  \E s \in Slots :
    /\ "wmcall" \in inv[s].faults /\ "wmdraw" \in inv[s].faults
    /\ Streamed(inv[s], "image")

(* C11: for every user text, the empty string included, the specification  *)
(* generateFallbackChart returns has non-empty labels and at least one     *)
(* dataset with non-empty data.                                            *)
ValidSpec(spec) ==
  /\ Len(spec.labels) > 0
  /\ \E i \in 1..Len(spec.datasets) : Len(spec.datasets[i]) > 0

C11_FallbackValid ==
  \A s \in Slots : inv[s].spec.src = "fallback" => ValidSpec(inv[s].spec)

C11_Witness ==
  \E s \in Slots :
    /\ inv[s].text.kw = {}
    /\ inv[s].spec.src = "fallback"
    /\ inv[s].spec.labels[5] = "Category E"

(* C12: a chat run whose client disconnected is not cancelled: while it    *)
(* waits, its next stage can still run; it ends as it would have with the  *)
(* client present (resolved unless the chat model call failed), with the   *)
(* user and the assistant turn in the history and, for a chart turn whose  *)
(* render did not throw, the image encoded; and nothing is put on the      *)
(* closed socket.                                                          *)
Disconnected(l) == l.method = "chat" /\ ~l.open

StageOf(s) ==
  Token(s) \/ LlmFail(s) \/ LlmDone(s) \/ BgDone(s) \/ BgFail(s) \/ Settle(s) \/ WmDone(s)

RunsOn(s) ==
  LET l == inv[s] IN
    Disconnected(l) =>
      /\ InFlight(l) => ENABLED StageOf(s)
      /\ Turn("user", l.id) \in Range(conversationHistory)
      /\ Finished(l) => (l.outcome = "resolved" <=> "llm" \notin l.faults)
      /\ Finished(l) /\ "llm" \notin l.faults =>
           /\ Turn("assistant", l.id) \in Range(conversationHistory)
           /\ isChartRequest(l.text) /\ "render" \notin l.faults =>
                "encode" \in Range(l.ops)

SilentOnceClosed(s) ==
  ~inv[s].open /\ ~inv'[s].open => inv'[s].sent = inv[s].sent

C13_EveryInvocationSettles ==
  \A s \in Slots : inv[s].pc # "hung" /\ inv[s].outcome # "hung"

(* C14: the events of a successful Agent.chat come in this order: the user *)
(* turn is appended, the model call streams its tokens, on the chart path  *)
(* onImage is invoked at most once, the assistant turn is appended and the *)
(* history trimmed to the cap, and onComplete is invoked exactly once, for *)
(* the text of the turn chat returns, followed by the handler's result.    *)
Event(rpc, type, streaming, id) ==
  [rpc |-> rpc, type |-> type, streaming |-> streaming, id |-> id, code |-> 0]

TokenEvents(l) == [i \in 1..l.ntok |-> Event("stream", "text", TRUE, l.id)]

Progress(l) == <<Event("stream", "status", TRUE, l.id)>> \o TokenEvents(l)

ImageEvents(l) ==
  <<Event("stream", "image", FALSE, l.id), Event("stream", "chartData", FALSE, l.id)>>

Completion(l) ==
  <<Event("stream", "text", FALSE, l.id), Event("result", "", FALSE, l.id)>>

Last(seq) == seq[Len(seq)]

ChatInOrder(l) ==
  /\ InFlight(l) =>
       /\ l.sent = Progress(l)
       /\ Turn("user", l.id) \in Range(conversationHistory)
       /\ Turn("assistant", l.id) \notin Range(conversationHistory)
       /\ l.calls[1].purpose = "conversation" => Last(l.calls[1].messages) = Turn("user", l.id)
  /\ Finished(l) /\ l.outcome = "resolved" =>
       /\ l.sent = IF "encode" \in Range(l.ops)
                   THEN Progress(l) \o ImageEvents(l) \o Completion(l)
                   ELSE Progress(l) \o Completion(l)
       /\ "encode" \in Range(l.ops) => isChartRequest(l.text)
       /\ Last(conversationHistory) = Turn("assistant", l.id)
       /\ conversationHistory[Len(conversationHistory) - 1] = Turn("user", l.id)
       /\ Len(conversationHistory) <= maxMessages

C14_ChatEventOrder ==
  \A s \in Slots : inv[s].method = "chat" => ChatInOrder(inv[s])

C14_Witness ==
  \E s \in Slots :
    /\ inv[s].method = "chat" /\ Finished(inv[s]) /\ inv[s].outcome = "resolved"
    /\ inv[s].ntok > 0
    /\ Streamed(inv[s], "image")
    /\ Len(conversationHistory) = maxMessages
    /\ conversationHistory[2] # Turn("user", 1)

(* C15: within one model call, onToken is invoked once per chunk in the    *)
(* order of arrival, every onToken precedes onComplete, and the string     *)
(* returned (and given to onComplete) is the concatenation of the tokens   *)
(* in that order.                                                          *)
RECURSIVE Concat(_)
Concat(tokens) ==
  IF tokens = <<>> THEN <<>> ELSE Head(tokens) \o Concat(Tail(tokens))

OnTokenLog(l) == [i \in 1..Len(l.arrived) |-> [cb |-> "onToken", arg |-> l.arrived[i]]]

CallbacksInOrder(l) ==
  LET tokenPart == IF "onToken" \in l.callbacks THEN OnTokenLog(l) ELSE <<>>
      completePart == IF "onComplete" \in l.callbacks
                      THEN <<[cb |-> "onComplete", arg |-> Concat(l.arrived)]>>
                      ELSE <<>>
  IN /\ l.pc \in {"streaming", "threw"} => l.log = tokenPart /\ l.returned = Undefined
     /\ l.pc = "returned" =>
          /\ l.log = tokenPart \o completePart
          /\ l.returned = Concat(l.arrived)

C15_TokensInArrivalOrder == CallbacksInOrder(inv[1])

C15_Witness ==
  /\ inv[1].pc = "returned"
  /\ inv[1].callbacks = {"onToken", "onComplete"}
  /\ inv[1].returned = <<"a", "b">>
  /\ Len(inv[1].log) = 4

(* C16: for an answer with no fenced block and no brace-delimited object   *)
(* parseChartDataFromText returns null, and every result that is not null  *)
(* has non-empty labels and a non-empty datasets sequence, never a partly  *)
(* filled specification.                                                   *)
Extracted(l) == l.pc = "done" /\ l.text \in Answers

C16_ExtractorAllOrNothing ==
  \A s \in Slots :
    LET l == inv[s] IN
      Extracted(l) =>
        /\ l.text.fence = "none" /\ l.text.brace = "none" => l.spec = NoSpec
        /\ l.spec # NoSpec =>
             /\ l.spec.src = "parsed"
             /\ Len(l.spec.labels) > 0
             /\ Len(l.spec.datasets) > 0
             /\ l.spec.type # ""

C16_Witness ==
  \E s \in Slots :
    /\ Extracted(inv[s])
    /\ inv[s].text.fence = "none" /\ inv[s].text.brace = "none"
    /\ inv[s].text.braceJson /\ inv[s].text.labels # <<>> /\ inv[s].text.datasets = << <<10, 20>> >>
    /\ inv[s].spec = NoSpec

(* C17: every chart specification that comes out of the extractor or the   *)
(* fallback generator, and so goes to the compositor, has its type among   *)
(* bar, line, pie and doughnut, whatever the type field of the model       *)
(* answer holds.                                                           *)
ChartTypes == {"bar", "line", "pie", "doughnut"}

C17_TypeInClosedSet ==
  \A s \in Slots :
    inv[s].spec.src \in {"parsed", "fallback"} => inv[s].spec.type \in ChartTypes

(* C18: when the user text of a chat turn holds none of the background     *)
(* keywords, no background stage runs in the turn: the extraction returns  *)
(* undefined, no background-description model call is made, no overlay is  *)
(* drawn and no backgroundDescription is produced or used.                 *)
NoBackgroundTrigger(l) == l.method = "chat" /\ l.text.kw \cap backgroundKeywords = {}

C18_NoTriggerNoBackground ==
  \A s \in Slots :
    LET l == inv[s] IN
      NoBackgroundTrigger(l) =>
        /\ extractBackgroundImagePrompt(l.text) = Undefined
        /\ l.opts.backgroundImagePrompt = Undefined
        /\ "background" \notin Range(Purposes(l))
        /\ l.pc # "bgcall"
        /\ "overlay" \notin Range(l.ops)
        /\ l.opts.backgroundDescription = Undefined
        /\ l.wmSource # "description"

C18_Witness ==
  \E s \in Slots :
    /\ NoBackgroundTrigger(inv[s]) /\ Finished(inv[s])
    /\ inv[s].ops = <<"fill", "chart", "watermark", "encode">>
    /\ Purposes(inv[s]) = <<"chartSpec", "watermark">>

(* C19: the direct path generateDataChart makes no chart-specification     *)
(* model call, runs neither the extractor nor the fallback generator (the  *)
(* specification drawn is the caller's), and leaves the conversation       *)
(* history unchanged.                                                      *)
DirectPath(l) ==
  l.method = "data" =>
    /\ "chartSpec" \notin Range(Purposes(l))
    /\ "conversation" \notin Range(Purposes(l))
    /\ l.spec.src = "given"
    /\ "extraction" \notin l.faults
    /\ \A i \in 1..Len(conversationHistory) : conversationHistory[i].src # l.id

OnlyStepOf(s) == inv'[s] # inv[s] /\ \A t \in Slots \ {s} : inv'[t] = inv[t]

HistoryUntouched(s) ==
  (inv[s].method = "data" \/ inv'[s].method = "data") /\ OnlyStepOf(s) =>
    conversationHistory' = conversationHistory

C19_DirectPathBypasses ==
  /\ [](\A s \in Slots : DirectPath(inv[s]))
  /\ [][\A s \in Slots : HistoryUntouched(s)]_vars

C19_Witness ==
  \E s \in Slots :
    /\ inv[s].method = "data" /\ Finished(inv[s]) /\ Streamed(inv[s], "image")
    /\ Purposes(inv[s]) = <<"background">>
    /\ inv[s].ops = <<"fill", "overlay", "chart", "watermark", "encode">>
    /\ conversationHistory = <<SystemTurn>>

(* C20: every stream event emitted while one chat or generateChart request *)
(* is handled carries the messageId generated for that request, and events *)
(* of different requests never share a messageId, also when the requests   *)
(* are handled interleaved.                                                *)
StreamEvents(l) == {m \in Range(l.sent) : m.rpc = "stream"}

OwnMessageId(s) ==
  /\ \A m \in StreamEvents(inv[s]) : m.id = inv[s].id /\ m.id < nextId
  /\ \A t \in Slots \ {s} :
       \A m \in StreamEvents(inv[s]), n \in StreamEvents(inv[t]) : m.id # n.id

FreshMessageId(s) ==
  inv[s].pc = "idle" /\ inv'[s].pc # "idle" =>
    /\ inv'[s].id = nextId
    /\ nextId' > nextId

C20_MessageIdCorrelates ==
  /\ [](\A s \in Slots : OwnMessageId(s))
  /\ [][\A s \in Slots : FreshMessageId(s)]_vars

C20_Witness ==
  /\ inv[1].method = "chat" /\ inv[2].method = "ai"
  /\ inv[1].ntok > 0 /\ inv[2].ntok > 0
  /\ Streamed(inv[1], "image")
  /\ InFlight(inv[2])

(* C21: background routing is a function of the description alone:         *)
(* 'gradient' selects the gradient procedure, with the blue stops when the *)
(* description also holds 'blue'; otherwise 'grid' or 'pattern' selects    *)
(* the grid-pattern procedure; otherwise the solid tint is selected, with  *)
(* the green tint when the description holds 'green'.                      *)
BlueStops == <<"rgba(240, 248, 255, 0.8)", "rgba(230, 240, 255, 0.8)">>
GreenTint == <<"rgba(240, 255, 240, 0.9)">>

RoutedTo(l) ==
  LET d == l.description
      t == l.treatment
  IN /\ "gradient" \in d => t.procedure = "gradient" /\ ("blue" \in d => t.colours = BlueStops)
     /\ "gradient" \notin d /\ d \cap {"grid", "pattern"} # {} => t.procedure = "pattern"
     /\ d \cap {"gradient", "grid", "pattern"} = {} => t.procedure = "solid"

C21_RoutingAsClaimed ==
  \A s \in Slots :
    LET l == inv[s] IN
      l.pc = "done" /\ l.description \in BackgroundDescriptions =>
        /\ RoutedTo(l)
        /\ l.treatment.procedure = "solid" /\ "green" \in l.description =>
             l.treatment.colours = GreenTint

(* C21 as amended: as above, with the green tint when the description      *)
(* holds 'green' and not 'blue'.                                           *)
C21_Routing ==
  \A s \in Slots :
    LET l == inv[s] IN
      l.pc = "done" /\ l.description \in BackgroundDescriptions =>
        /\ RoutedTo(l)
        /\ l.treatment.procedure = "solid" /\ "green" \in l.description
             /\ "blue" \notin l.description =>
             l.treatment.colours = GreenTint

C21_Witness ==
  \E s \in Slots :
    /\ inv[s].pc = "done"
    /\ inv[s].description = {"gradient", "grid", "blue", "green"}
    /\ inv[s].treatment.colours = BlueStops

(* C22: the extractor is idempotent: when parseChartDataFromText succeeds, *)
(* parsing the JSON text of the extracted type, title, labels and datasets *)
(* succeeds too and yields the same type, title, labels and datasets.      *)
Reparsed == inv[1].pc = "done" /\ inv[2].pc = "done" /\ inv[2].text = Serialized(inv[1].spec)

ParsesSomewhere(text) ==
  \/ text.fence # "none" /\ text.fenceJson
  \/ text.brace \in {"long", "chart"} /\ text.braceJson

HoldsValidChart(text) ==
  /\ Len(text.labels) > 0
  /\ Len(text.datasets) > 0
  /\ Len(text.datasets[1]) > 0

C23_LaterPatternsTried ==
  \A s \in Slots :
    LET l == inv[s] IN
      Extracted(l) /\ ParsesSomewhere(l.text) /\ HoldsValidChart(l.text) =>
        /\ l.spec # NoSpec
        /\ l.spec.labels = l.text.labels

(* C24: for an answer whose structured object parses, the extractor        *)
(* accepts it exactly when labels is non-empty and at least one dataset,   *)
(* at any position, has non-empty data; in every other case it fails.      *)
ObjectParsed(text) == Scanned(text).match /\ Scanned(text).json

C24_AcceptsAnyNonEmptyDataset ==
  \A s \in Slots :
    LET l == inv[s] IN
      Extracted(l) /\ ObjectParsed(l.text) =>
        (l.spec # NoSpec <=>
           /\ Len(l.text.labels) > 0
           /\ \E i \in 1..Len(l.text.datasets) : Len(l.text.datasets[i]) > 0)

(* C25: generateFallbackChart takes its labels entirely from the bucket it *)
(* selects: month names for 'month', otherwise Q1 to Q4 and nothing else   *)
(* for 'quarter', otherwise product names for 'product', otherwise the     *)
(* five generic categories; and its numeric series is as long as the       *)
(* labels.                                                                 *)
BucketLabels(text) ==
  IF "month" \in text.kw THEN <<"Jan", "Feb", "Mar", "Apr", "May">>
  ELSE IF "quarter" \in text.kw THEN <<"Q1", "Q2", "Q3", "Q4">>
  ELSE IF "product" \in text.kw
       THEN <<"Product 1", "Product 2", "Product 3", "Product 4", "Product 5">>
  ELSE <<"Category A", "Category B", "Category C", "Category D", "Category E">>

C25_LabelsFromOneBucket ==
  \A s \in Slots :
    LET l == inv[s] IN
      l.spec.src = "fallback" =>
        /\ l.spec.labels = BucketLabels(l.text)
        /\ \A i \in 1..Len(l.spec.datasets) :
             Len(l.spec.datasets[i]) = Len(l.spec.labels)

(* C26: the solid-tint procedure chooses its colour with the colour table  *)
(* of the gradient procedure (blue, green, purple, otherwise default): for *)
(* every description the keyword that decides the gradient stops also      *)
(* decides the solid tint.                                                 *)
C26_SameColourTable ==
  inv[1].pc = "done" /\ inv[2].pc = "done"
  /\ inv[1].treatment.procedure = "gradient" /\ inv[2].treatment.procedure = "solid" =>
    /\ inv[2].treatment.key = inv[1].treatment.key
    /\ inv[2].treatment.key \in {"blue", "green", "purple", "default"}

(* C27: every chat turn takes one of two routes decided by isChartRequest. *)
(* A chart turn sends the model only the chart system prompt and the       *)
(* current user text, never the history, and then runs the extraction; a   *)
(* plain turn sends the whole history and runs neither extractor nor       *)
(* fallback nor compositor nor onImage.  On both routes exactly one user   *)
(* turn and one assistant turn are appended to the history.                *)
TurnsOf(role, id) ==
  Cardinality({i \in 1..Len(conversationHistory) : conversationHistory[i] = Turn(role, id)})

IsPrefix(p, q) == Len(p) <= Len(q) /\ SubSeq(q, 1, Len(p)) = p

PastModelCall(l) == l.pc \in {"bgcall", "settle", "wmcall", "hung"} \/ l.outcome = "resolved"

ChartRoute(l) ==
  /\ l.calls[1] = ModelCall("chartSpec", <<Turn("system", l.id), Turn("user", l.id)>>)
  /\ PastModelCall(l) => l.spec.src \in {"parsed", "fallback"}
  /\ l.spec.src = "fallback" <=> "extraction" \in l.faults

PlainRoute(l) ==
  /\ Purposes(l) = <<"conversation">>
  /\ l.calls[1].messages[1] = SystemTurn
  /\ Last(l.calls[1].messages) = Turn("user", l.id)
  /\ IsPrefix(l.calls[1].messages, conversationHistory)
  /\ l.spec = NoSpec /\ "extraction" \notin l.faults
  /\ l.ops = <<>>
  /\ ~Streamed(l, "image")

OneOfTwoRoutes(l) ==
  /\ isChartRequest(l.text) => ChartRoute(l)
  /\ ~isChartRequest(l.text) => PlainRoute(l)
  /\ TurnsOf("user", l.id) = 1

C27_TwoRoutesAsClaimed ==
  \A s \in Slots :
    inv[s].method = "chat" =>
      /\ OneOfTwoRoutes(inv[s])
      /\ Finished(inv[s]) => TurnsOf("assistant", inv[s].id) = 1

(* C27 as amended: as above, with exactly one assistant turn appended when *)
(* the turn completes and none when its model call fails or while it runs. *)
C27_TwoRoutes ==
  \A s \in Slots :
    inv[s].method = "chat" =>
      /\ OneOfTwoRoutes(inv[s])
      /\ TurnsOf("assistant", inv[s].id) = IF inv[s].outcome = "resolved" THEN 1 ELSE 0

C27_Witness ==
  \E s, t \in Slots :
    /\ inv[s].method = "chat" /\ isChartRequest(inv[s].text)
    /\ inv[s].outcome = "resolved" /\ Streamed(inv[s], "image")
    /\ inv[t].method = "chat" /\ ~isChartRequest(inv[t].text)
    /\ inv[t].pc = "llm" /\ Len(inv[t].calls[1].messages) = 3

(* C28: for every JSON-RPC request received the server sends at most one   *)
(* response with the request's id, a result or an error and never both,    *)
(* and exactly one when the socket stays open; an unknown method gets      *)
(* error -32601, an unparseable message error -32700, and for chat the     *)
(* response comes after all stream events of the request.                  *)
ResponseIndices(l) ==
  {i \in 1..Len(l.sent) : l.sent[i].rpc \in {"result", "error"}}

Answered(l) ==
  /\ Cardinality(ResponseIndices(l)) <= 1
  /\ Finished(l) /\ l.open =>
       /\ Cardinality(ResponseIndices(l)) = 1
       /\ \A i \in ResponseIndices(l) :
            /\ i = Len(l.sent)
            /\ l.method # "unparseable" => l.sent[i].id = l.id
            /\ l.method = "unknown" => l.sent[i].rpc = "error" /\ l.sent[i].code = -32601
            /\ l.method = "unparseable" => l.sent[i].rpc = "error" /\ l.sent[i].code = -32700
  /\ ~Finished(l) => ResponseIndices(l) = {}

C28_OneResponsePerRequest ==
  \A s \in Slots : inv[s].method # "none" => Answered(inv[s])

(* C29: at any time the useWebSocket hook owns at most one WebSocket that  *)
(* is connecting or open: connect() called from mount, from the reconnect  *)
(* timer or from the Reconnect button while an attempt is pending or a     *)
(* socket is open never creates a second live socket.                      *)
C29_AtMostOneLiveSocket ==
  inv[1].pc = "hook" => Cardinality(Live(inv[1])) <= 1

(* C30: every promise send() returns settles exactly once: rejected at     *)
(* once when the socket is not open, otherwise resolved or rejected by the *)
(* response with its own request id, or rejected by the 30 s timeout when  *)
(* no such response arrived; a later response or timeout has no effect,    *)
(* and no entry stays in the pending table once its promise has settled.   *)
SettlesOnce(h, p) ==
  /\ p.settles <= 1
  /\ p.settles = 1 <=> p.state # "pending"
  /\ p.id = 0 => p.state = "rejected" /\ p.by = "closed"
  /\ p.id # 0 =>
       /\ p.id \in h.pending <=> p.state = "pending"
       /\ p.id \notin h.timeouts => p.state # "pending"
       /\ p.state = "resolved" => p.by = "response"
       /\ p.state = "rejected" => p.by \in {"response", "timeout"}

C30_SendSettlesOnce ==
  inv[1].pc = "hook" =>
    /\ \A k \in 1..Len(inv[1].promises) : SettlesOnce(inv[1], inv[1].promises[k])
    /\ \A id \in inv[1].pending : \E k \in 1..Len(inv[1].promises) : inv[1].promises[k].id = id

C30_Witness ==
  /\ inv[1].pc = "hook"
  /\ Len(inv[1].promises) = 2
  /\ inv[1].promises[1].state = "resolved" /\ inv[1].promises[1].id \notin inv[1].timeouts
  /\ inv[1].promises[2].by = "timeout"
  /\ inv[1].awaiting = {}

====
